---- MODULE Spec2Model ----
(***************************************************************************)
(* A model of burg.hpp: Burg's recursion (burg_method), the Zohar-Trench   *)
(* Toeplitz solver (zohar_linear_solve) and their working state.           *)
(*                                                                         *)
(* The working precision Value is modelled in exact arithmetic: a value is *)
(* a pair <<n, d>> standing for n/d in lowest terms with d > 0.  The three *)
(* results a floating division by zero can give are kept as values with    *)
(* d = 0: <<1, 0>> (+inf), <<-1, 0>> (-inf) and <<0, 0>> (NaN).            *)
(* C++ vectors are sequences; the element the code calls v[i] is v[i + 1]. *)
(***************************************************************************)
EXTENDS Integers, Sequences, FiniteSets, TLC

(***************************************************************************)
(* Bounds of the model.                                                    *)
(***************************************************************************)
\* longest input series handed to burg_method
MaxN == 6
\* a nonzero order p_in (besides the largest std::size_t) is requested on
\* N samples when N + p_in is at most this
Budget == 6
\* the same, for the calls that subtract the mean
BudgetSub == 4
\* width in bits of the model's std::size_t
SizeBits == 16
\* largest Toeplitz problem size n = distance(a_first, a_last)
MaxZ == 3
\* largest sample count N whose orders 0..N are all visited by the
\* empirical-variance adapters (besides two large values of N)
MaxVarN == 4
\* sample values of the input series
DataVals == {-1, 0, 1}
\* entries of the Toeplitz vectors a and r
ToepVals == {-1, 2}
\* entries of the right-hand side d
RhsVals == {0, 1}

SizeMod == 2 ^ SizeBits
SizeMax == SizeMod - 1

(***************************************************************************)
(* Value: exact arithmetic with the IEEE results of division by zero.      *)
(***************************************************************************)
Abs(i) == IF i < 0 THEN -i ELSE i

Sgn(i) == IF i > 0 THEN 1 ELSE IF i < 0 THEN -1 ELSE 0

RECURSIVE Gcd(_, _)
Gcd(m, n) == IF n = 0 THEN m ELSE Gcd(n, m % n)

Rat(num, den) ==
    IF den = 0
    THEN <<Sgn(num), 0>>
    ELSE LET c == Gcd(Abs(num), Abs(den))
         IN  <<Sgn(den) * (num \div c), Abs(den) \div c>>

FromInt(i) == <<i, 1>>

Zero == FromInt(0)

One == FromInt(1)

NaN == <<0, 0>>

IsFinite(u) == u[2] > 0

IsZero(u) == u = Zero

Neg(u) == <<-u[1], u[2]>>

Add(u, v) ==
    IF u[2] = 0 \/ v[2] = 0
    THEN IF u = NaN \/ v = NaN THEN NaN
         ELSE IF u[2] = 0 /\ v[2] = 0 THEN (IF u = v THEN u ELSE NaN)
         ELSE IF u[2] = 0 THEN u ELSE v
    ELSE LET c == Gcd(u[2], v[2])
         IN  Rat(u[1] * (v[2] \div c) + v[1] * (u[2] \div c), (u[2] \div c) * v[2])

Sub(u, v) == Add(u, Neg(v))

Mul(u, v) ==
    IF u[2] = 0 \/ v[2] = 0
    THEN <<Sgn(u[1]) * Sgn(v[1]), 0>>
    ELSE LET c1 == Gcd(Abs(u[1]), v[2])
             c2 == Gcd(Abs(v[1]), u[2])
         IN  <<(u[1] \div c1) * (v[1] \div c2), (u[2] \div c2) * (v[2] \div c1)>>

Inv(u) ==
    IF u[2] = 0 THEN (IF u = NaN THEN NaN ELSE Zero)
    ELSE IF u[1] = 0 THEN <<1, 0>>
    ELSE <<Sgn(u[1]) * u[2], Abs(u[1])>>

Div(u, v) == Mul(u, Inv(v))

\* u <= v; false when either is NaN
Leq(u, v) ==
    IF u = NaN \/ v = NaN THEN FALSE
    ELSE IF u[2] = 0 /\ v[2] = 0 THEN u[1] <= v[1]
    ELSE IF u[2] = 0 THEN u[1] < 0
    ELSE IF v[2] = 0 THEN v[1] > 0
    ELSE u[1] * v[2] <= v[1] * u[2]

AllFinite(v) == \A i \in 1..Len(v) : IsFinite(v[i])

\* std::inner_product(first1, last1, first2, init) over s1 and the elements
\* of s2 that follow offset off
RECURSIVE InnerFrom(_, _, _, _, _)
InnerFrom(s1, s2, off, acc, i) ==
    IF i > Len(s1) THEN acc
    ELSE InnerFrom(s1, s2, off, Add(acc, Mul(s1[i], s2[off + i])), i + 1)

InnerProduct(s1, s2, off, init) == InnerFrom(s1, s2, off, init, 1)

Reverse(v) == [i \in 1..Len(v) |-> v[Len(v) + 1 - i]]

Zeros(n) == [i \in 1..n |-> Zero]

Values(xs) == [i \in 1..Len(xs) |-> FromInt(xs[i])]

(***************************************************************************)
(* State.                                                                  *)
(*   burg_method: the arguments (data, maxorder, subtract_mean, hierarchy),*)
(*   the locals (N, f, b, fold_i, sigma2e, Dk, Ak, gain, autocor, kp1, mu),*)
(*   the outputs (mean, maxorder, the four sinks, the return value ret),   *)
(*   and the history of what was written to the sinks and which elements   *)
(*   of b the mean step touched (emit_log, b_idx).  p_in keeps the order   *)
(*   the caller asked for.                                                 *)
(***************************************************************************)
VARIABLES pc, data, p_in, maxorder, subtract_mean, hierarchy,
          N, f, b, fold_i, mean, sigma2e, Dk, Ak, gain, autocor, kp1, mu,
          params_out, sigma2e_out, gain_out, autocor_out, ret,
          emit_log, b_idx

burg_vars == <<pc, data, p_in, maxorder, subtract_mean, hierarchy,
               N, f, b, fold_i, mean, sigma2e, Dk, Ak, gain, autocor, kp1, mu,
               params_out, sigma2e_out, gain_out, autocor_out, ret,
               emit_log, b_idx>>

(***************************************************************************)
(*   State: the ranges a and r, the buffer d that d_first walks, the       *)
(*   separate destination dest, the overload called (mode), the locals     *)
(*   (s, ehat, g, lambda, the loop index zi, the position d_first), and    *)
(*   the history: d_in is d as the caller passed it, io_log the reads of d *)
(*   and the writes of the output in the order they happened, touched the  *)
(*   elements of a and r that were read, lambda_log the divisors used.     *)
(***************************************************************************)
VARIABLES zpc, mode, a, r, d, dest, s, ehat, g, lambda, zi, d_first,
          d_in, io_log, touched, lambda_log

zohar_vars == <<zpc, mode, a, r, d, dest, s, ehat, g, lambda, zi, d_first,
                d_in, io_log, touched, lambda_log>>

\* The empirical-variance family: the method and mean handling the
\* adapters are instantiated with, the sample count vN, an
\* empirical_variance_iterator `it`, the copy of it taken before the last
\* increment, the iterator the last increment returned, the kind of the last
\* increment and the number of increments so far, and the kind, arguments,
\* denominators and result of the last evaluation.
VARIABLES vpc, method, mean_handling, vN, it, copy, returned, last_op, increments,
          last_eval, arg, den_used, value

variance_vars == <<vpc, method, mean_handling, vN, it, copy, returned, last_op, increments,
                   last_eval, arg, den_used, value>>

\* the arguments the call never writes (maxorder is written back)
burg_args == <<data, p_in, subtract_mean, hierarchy>>

\* the locals of the recursion
burg_rec == <<sigma2e, Dk, Ak, gain, autocor, kp1, mu>>

\* the four output sinks and the order in which they were written
burg_sinks == <<params_out, sigma2e_out, gain_out, autocor_out, emit_log>>

(***************************************************************************)
(* burg_method: the pairwise mean.                                         *)
(***************************************************************************)
\* v[i] of a vector; reading past the end yields no number
Elem(v, i) == IF i >= 0 /\ i < Len(v) THEN v[i + 1] ELSE NaN

\* the first pass written with = in place of +=
RECURSIVE FirstPass_Assign(_, _, _)
FirstPass_Assign(bv, fv, i) ==
    IF i >= Len(fv) THEN bv
    ELSE FirstPass_Assign([bv EXCEPT ![(i \div 2) + 1] = fv[i + 1]], fv, i + 1)

\* for (i = 0; i < N; ++i) b[i/2] += f[i];
RECURSIVE FirstPass(_, _, _)
FirstPass(bv, fv, i) ==
    IF i >= Len(fv) THEN bv
    ELSE FirstPass([bv EXCEPT ![(i \div 2) + 1] = Add(@, fv[i + 1])], fv, i + 1)

FirstPassIdx(n) == {i \div 2 : i \in 0..(n - 1)}

\* size t = N, i = !!N; while (t /= 2) i *= 2;
RECURSIVE PowerOfTwoBelow(_, _)
PowerOfTwoBelow(t, i) ==
    IF t \div 2 = 0 THEN i ELSE PowerOfTwoBelow(t \div 2, i * 2)

\* for (j = 0; j < i; ++j) b[j] = b[2*j] + b[2*j+1];
RECURSIVE FoldPass(_, _, _)
FoldPass(bv, i, j) ==
    IF j >= i THEN bv
    ELSE FoldPass([bv EXCEPT ![j + 1] = Add(Elem(bv, 2 * j), Elem(bv, 2 * j + 1))],
                  i, j + 1)

FoldPassIdx(i) == UNION {{j, 2 * j, 2 * j + 1} : j \in 0..(i - 1)}

BurgMeanFirstPass ==
    /\ pc = "start"
    /\ f' = Values(data)
    /\ N' = Len(data)
    /\ b' = FirstPass(Zeros(N'), f', 0)
    /\ b_idx' = FirstPassIdx(N')
    /\ fold_i' = PowerOfTwoBelow(N', IF N' = 0 THEN 0 ELSE 1)
    /\ pc' = "fold"
    /\ UNCHANGED <<variance_vars, zohar_vars, burg_args, burg_rec, burg_sinks, maxorder, mean, ret>>

BurgMeanFold ==
    /\ pc = "fold"
    /\ fold_i \div 2 # 0
    /\ fold_i' = fold_i \div 2
    /\ b' = FoldPass(b, fold_i', 0)
    /\ b_idx' = b_idx \cup FoldPassIdx(fold_i')
    /\ UNCHANGED <<variance_vars, zohar_vars, burg_args, burg_rec, burg_sinks, pc, maxorder, N, f, mean, ret>>

\* mean = b[0] / N;
BurgMeanDivide ==
    /\ pc = "fold"
    /\ fold_i \div 2 = 0
    /\ N >= 1
    /\ fold_i' = 0
    /\ mean' = Div(b[1], FromInt(N))
    /\ b_idx' = b_idx \cup {0}
    /\ pc' = "clamp"
    /\ UNCHANGED <<variance_vars, zohar_vars, burg_args, burg_rec, burg_sinks, maxorder, N, f, b, ret>>

\* mean = b[0] / N with N = 0 reads element 0 of the empty vector b: undefined
\* behaviour.  The read faults, or yields some number that is divided by zero.
BurgMeanEmpty ==
    /\ pc = "fold"
    /\ fold_i \div 2 = 0
    /\ N = 0
    /\ b_idx' = b_idx \cup {0}
    /\ \/ /\ pc' = "crashed"
          /\ mean' = mean
       \/ /\ pc' = "clamp"
          /\ mean' \in {NaN, <<1, 0>>, <<-1, 0>>}
    /\ UNCHANGED <<variance_vars, zohar_vars, burg_args, burg_rec, burg_sinks, maxorder, N, f, b, fold_i, ret>>

(***************************************************************************)
(* burg_method: the order clamp and the short circuit.                     *)
(***************************************************************************)
Min(x, y) == IF x <= y THEN x ELSE y

\* min(static_cast<size>(maxorder)+1, N)-1 in std::size_t arithmetic
ClampOrder(p, n) == (Min((p + 1) % SizeMod, n) - 1) % SizeMod

BurgClamp ==
    /\ pc = "clamp"
    /\ maxorder' = ClampOrder(maxorder, N)
    /\ IF maxorder' = 0
       THEN /\ ret' = N
            /\ pc' = "done"
       ELSE /\ ret' = ret
            /\ pc' = "init"
    /\ UNCHANGED <<variance_vars, zohar_vars, burg_args, burg_rec, burg_sinks, N, f, b, fold_i, mean, b_idx>>

(***************************************************************************)
(* burg_method: the recursion.                                             *)
(***************************************************************************)
\* transform(f.begin(), f.end(), f.begin(), bind2nd(minus<Value>(), mean))
SubtractMean(fv, m) == [i \in 1..Len(fv) |-> Sub(fv[i], m)]

\* inner_product(f.begin(), f.end(), f.begin(), Value(0))
SumSquares(fv) == InnerProduct(fv, fv, 0, Zero)

\* the initial Dk without the factor 2 on the sum of squares
InitialDk_NoDoubling(fv, s2) ==
    Add(Sub(Neg(Mul(fv[1], fv[1])), Mul(fv[Len(fv)], fv[Len(fv)])), s2)

\* - f[0]*f[0] - f[N - 1]*f[N - 1] + 2*sigma2e
InitialDk(fv, s2) ==
    Add(Sub(Neg(Mul(fv[1], fv[1])), Mul(fv[Len(fv)], fv[Len(fv)])),
        Mul(FromInt(2), s2))

\* vector Ak(maxorder + 1, Value(0)); Ak[0] = 1;
InitialAk(p) == [i \in 1..(p + 1) |-> IF i = 1 THEN One ELSE Zero]

\* 2/Dk*inner_product(f.begin() + kp1, f.end(), b.begin(), Value(0))
Reflection(fv, bv, D, k) ==
    Mul(Div(FromInt(2), D), InnerProduct(SubSeq(fv, k + 1, Len(fv)), bv, 0, Zero))

\* 1 - mu*mu
OneMinusSquare(m) == Sub(One, Mul(m, m))

\* the sweep with the loop test n < kp1/2
RECURSIVE SweepAk_Exclusive(_, _, _, _)
SweepAk_Exclusive(A, m, k, n) ==
    IF n >= k \div 2 THEN A
    ELSE LET t1 == Sub(A[n + 1], Mul(m, A[k - n + 1]))
             t2 == Sub(A[k - n + 1], Mul(m, A[n + 1]))
             A1 == [A EXCEPT ![n + 1] = t1]
         IN  SweepAk_Exclusive([A1 EXCEPT ![k - n + 1] = t2], m, k, n + 1)

\* the sweep storing Ak[n] before Ak[kp1 - n] is computed from it
RECURSIVE SweepAk_Sequential(_, _, _, _)
SweepAk_Sequential(A, m, k, n) ==
    IF n > k \div 2 THEN A
    ELSE LET t1 == Sub(A[n + 1], Mul(m, A[k - n + 1]))
             A1 == [A EXCEPT ![n + 1] = t1]
             t2 == Sub(A1[k - n + 1], Mul(m, A1[n + 1]))
         IN  SweepAk_Sequential([A1 EXCEPT ![k - n + 1] = t2], m, k, n + 1)

\* for (n = 0; n <= kp1/2; ++n) { t1 = Ak[n] - mu*Ak[kp1 - n]; ... }
RECURSIVE SweepAk(_, _, _, _)
SweepAk(A, m, k, n) ==
    IF n > k \div 2 THEN A
    ELSE LET t1 == Sub(A[n + 1], Mul(m, A[k - n + 1]))
             t2 == Sub(A[k - n + 1], Mul(m, A[n + 1]))
             A1 == [A EXCEPT ![n + 1] = t1]
         IN  SweepAk([A1 EXCEPT ![k - n + 1] = t2], m, k, n + 1)

\* gain *= 1 / (1 - Ak[kp1]*Ak[kp1])
NextGain(gn, A, k) == Mul(gn, Div(One, Sub(One, Mul(A[k + 1], A[k + 1]))))

\* -inner_product(autocor.rbegin(), autocor.rend(), Ak.begin() + 1, Ak[kp1])
NextAutocor(ac, A, k) == Neg(InnerProduct(Reverse(ac), A, 1, A[k + 1]))

\* for (n = 0; n < N - kp1; ++n) { t1 = f[n + kp1] - mu*b[n]; ... }
RECURSIVE UpdateResiduals(_, _, _, _, _)
UpdateResiduals(fv, bv, m, k, n) ==
    IF n >= Len(fv) - k THEN <<fv, bv>>
    ELSE LET t1 == Sub(fv[n + k + 1], Mul(m, bv[n + 1]))
             t2 == Sub(bv[n + 1], Mul(m, fv[n + k + 1]))
         IN  UpdateResiduals([fv EXCEPT ![n + k + 1] = t1],
                             [bv EXCEPT ![n + 1] = t2], m, k, n + 1)

\* the update of Dk without the factor 1 - mu*mu
NextDk_NoShrink(D, m, fv, bv, k) ==
    Sub(Sub(D, Mul(fv[k + 1], fv[k + 1])), Mul(bv[Len(bv) - k], bv[Len(bv) - k]))

\* (1 - mu*mu)*Dk - f[kp1]*f[kp1] - b[N - kp1 - 1]*b[N - kp1 - 1]
NextDk(D, m, fv, bv, k) ==
    Sub(Sub(Mul(OneMinusSquare(m), D), Mul(fv[k + 1], fv[k + 1])),
        Mul(bv[Len(bv) - k], bv[Len(bv) - k]))

\* Lines 170-185 index f[0] and Ak[0].  With N = 0 the vector f is empty, and
\* with maxorder + 1 wrapped to 0 the vector Ak is: either access is undefined
\* behaviour on a vector that owns no storage, and the call faults.
BurgInitFault ==
    /\ pc = "init"
    /\ N = 0 \/ (maxorder + 1) % SizeMod = 0
    /\ pc' = "crashed"
    /\ UNCHANGED <<variance_vars, zohar_vars, burg_args, burg_rec, burg_sinks, maxorder, N, f, b, fold_i,
                   mean, ret, b_idx>>

BurgInitRecursion ==
    /\ pc = "init"
    /\ N >= 1
    /\ (maxorder + 1) % SizeMod # 0
    /\ f' = IF subtract_mean THEN SubtractMean(f, mean) ELSE f
    /\ sigma2e' = Div(SumSquares(f'), FromInt(N))
    /\ Dk' = InitialDk(f', SumSquares(f'))
    /\ b' = f'
    /\ Ak' = InitialAk(maxorder)
    /\ gain' = One
    /\ autocor' = <<>>
    /\ kp1' = 1
    /\ pc' = "reflect"
    /\ UNCHANGED <<variance_vars, zohar_vars, burg_args, burg_sinks, maxorder, N, fold_i, mean, mu, ret, b_idx>>

\* lines 193-210: mu, sigma2e, the sweep over Ak, gain and the next
\* autocorrelation
BurgReflect ==
    /\ pc = "reflect"
    /\ mu' = Reflection(f, b, Dk, kp1)
    /\ sigma2e' = Mul(sigma2e, OneMinusSquare(mu'))
    /\ Ak' = SweepAk(Ak, mu', kp1, 0)
    /\ gain' = NextGain(gain, Ak', kp1)
    /\ autocor' = Append(autocor, NextAutocor(autocor, Ak', kp1))
    /\ pc' = "emit"
    /\ UNCHANGED <<variance_vars, zohar_vars, burg_args, burg_sinks, maxorder, N, f, b, fold_i, mean, Dk, kp1,
                   ret, b_idx>>

\* the emission test without the hierarchy flag
EmitsOrder_Always(h, k, p) == h \/ k <= p

\* if (hierarchy || kp1 == maxorder)
EmitsOrder(h, k, p) == h \/ k = p

\* what one emission appends to the log: the order's coefficients in
\* ascending index, then its sigma2e, then its gain
OrderEvents(k) ==
    [i \in 1..k |-> <<"param", k, i>>] \o <<<<"sigma2e", k, 0>>, <<"gain", k, 0>>>>

\* lines 213-219
BurgEmit ==
    /\ pc = "emit"
    /\ IF EmitsOrder(hierarchy, kp1, maxorder)
       THEN /\ params_out' = params_out \o SubSeq(Ak, 2, kp1 + 1)
            /\ sigma2e_out' = Append(sigma2e_out, sigma2e)
            /\ gain_out' = Append(gain_out, gain)
            /\ emit_log' = emit_log \o OrderEvents(kp1)
       ELSE UNCHANGED <<params_out, sigma2e_out, gain_out, emit_log>>
    /\ pc' = "update"
    /\ UNCHANGED <<variance_vars, zohar_vars, burg_args, burg_rec, autocor_out, maxorder, N, f, b, fold_i,
                   mean, ret, b_idx>>

\* lines 221-232 and the loop's ++kp1
BurgUpdate ==
    /\ pc = "update"
    /\ IF kp1 < maxorder
       THEN LET fb == UpdateResiduals(f, b, mu, kp1, 0)
            IN  /\ f' = fb[1]
                /\ b' = fb[2]
                /\ Dk' = NextDk(Dk, mu, fb[1], fb[2], kp1)
       ELSE UNCHANGED <<f, b, Dk>>
    /\ kp1' = kp1 + 1
    /\ pc' = IF kp1 + 1 <= maxorder THEN "reflect" ELSE "autocor"
    /\ UNCHANGED <<variance_vars, zohar_vars, burg_args, burg_sinks, maxorder, N, fold_i, mean, sigma2e, Ak,
                   gain, autocor, mu, ret, b_idx>>

\* lines 235-239
BurgReturn ==
    /\ pc = "autocor"
    /\ autocor_out' = autocor_out \o autocor
    /\ emit_log' = emit_log \o [i \in 1..Len(autocor) |-> <<"autocor", i, 0>>]
    /\ ret' = N
    /\ pc' = "done"
    /\ UNCHANGED <<variance_vars, zohar_vars, burg_args, burg_rec, params_out, sigma2e_out, gain_out,
                   maxorder, N, f, b, fold_i, mean, b_idx>>

(***************************************************************************)
(* The calls of burg_method the model makes.                               *)
(***************************************************************************)
Series(n) == [1..n -> DataVals]

\* The exact values of the recursion about square with every order and grow
\* with the length of the series, so the orders requested shrink as the
\* series grows; order 0 and the largest std::size_t are requested on all.
RequestedOrders(n, sub) ==
    {p \in 1..n : n + p <= (IF sub THEN BudgetSub ELSE Budget)} \cup {0, SizeMax}

BurgInit ==
    /\ pc = "start"
    /\ \E n \in 0..MaxN : data \in Series(n)
    /\ subtract_mean \in BOOLEAN
    /\ p_in \in RequestedOrders(Len(data), subtract_mean)
    /\ maxorder = p_in
    /\ hierarchy \in BOOLEAN
    /\ N = 0
    /\ f = <<>>
    /\ b = <<>>
    /\ fold_i = 0
    /\ mean = Zero
    /\ sigma2e = Zero
    /\ Dk = Zero
    /\ Ak = <<>>
    /\ gain = Zero
    /\ autocor = <<>>
    /\ kp1 = 0
    /\ mu = Zero
    /\ params_out = <<>>
    /\ sigma2e_out = <<>>
    /\ gain_out = <<>>
    /\ autocor_out = <<>>
    /\ ret = 0
    /\ emit_log = <<>>
    /\ b_idx = {}

BurgNext ==
    \/ BurgMeanFirstPass
    \/ BurgMeanFold
    \/ BurgMeanDivide
    \/ BurgMeanEmpty
    \/ BurgClamp
    \/ BurgInitFault
    \/ BurgInitRecursion
    \/ BurgReflect
    \/ BurgEmit
    \/ BurgUpdate
    \/ BurgReturn

(***************************************************************************)
(* zohar_linear_solve.                                                     *)
(***************************************************************************)
\* the arguments and the history the steps of the recursion leave alone
zohar_args == <<mode, a, r, d_in>>

\* the argument test off by one
ZoharInvalid_OffByOne(dist) == dist < 2

\* if (dist < 1) throw std::invalid_argument(...)
ZoharInvalid(dist) == dist < 1

\* reverse_iterator<RandomAccessIterator> rhat_first(r_first + i)
Rhat(rv, i) == Reverse(SubSeq(rv, 1, i))

\* lines 308-311: the initial values of the recursion
ZoharFirst(av, rv, dv) ==
    [s |-> <<dv>>,
     ehat |-> <<Neg(av[1])>>,
     g |-> <<Neg(rv[1])>>,
     lambda |-> Sub(One, Mul(av[1], rv[1]))]

\* the step updating g from the ehat it has just overwritten
ZoharStep_Overwritten(st, av, rv, dv, i) ==
    LET neg_theta == InnerProduct(st.s, Rhat(rv, i), 0, Neg(dv))
        neg_eta == InnerProduct(st.ehat, av, 0, av[i + 1])
        neg_gamma == InnerProduct(st.g, Rhat(rv, i), 0, rv[i + 1])
        theta_by_lambda == Div(Neg(neg_theta), st.lambda)
        eta_by_lambda == Div(Neg(neg_eta), st.lambda)
        gamma_by_lambda == Div(Neg(neg_gamma), st.lambda)
        ehat1 == <<eta_by_lambda>> \o
                 [j \in 1..i |-> Add(st.ehat[j], Mul(eta_by_lambda, st.g[j]))]
    IN  [s |-> Append([j \in 1..i |-> Add(st.s[j], Mul(theta_by_lambda, st.ehat[j]))],
                      theta_by_lambda),
         ehat |-> ehat1,
         g |-> Append([j \in 1..i |-> Add(st.g[j], Mul(gamma_by_lambda, ehat1[j]))],
                      gamma_by_lambda),
         lambda |-> Sub(st.lambda, Div(Mul(neg_eta, neg_gamma), st.lambda))]

\* lines 325-371: the recursion's step i, which reads dv = *++d_first
ZoharStep(st, av, rv, dv, i) ==
    LET neg_theta == InnerProduct(st.s, Rhat(rv, i), 0, Neg(dv))
        neg_eta == InnerProduct(st.ehat, av, 0, av[i + 1])
        neg_gamma == InnerProduct(st.g, Rhat(rv, i), 0, rv[i + 1])
        theta_by_lambda == Div(Neg(neg_theta), st.lambda)
        eta_by_lambda == Div(Neg(neg_eta), st.lambda)
        gamma_by_lambda == Div(Neg(neg_gamma), st.lambda)
    IN  [s |-> Append([j \in 1..i |-> Add(st.s[j], Mul(theta_by_lambda, st.ehat[j]))],
                      theta_by_lambda),
         ehat |-> <<eta_by_lambda>> \o
                  [j \in 1..i |-> Add(st.ehat[j], Mul(eta_by_lambda, st.g[j]))],
         g |-> Append([j \in 1..i |-> Add(st.g[j], Mul(gamma_by_lambda, st.ehat[j]))],
                      gamma_by_lambda),
         lambda |-> Sub(st.lambda, Div(Mul(neg_eta, neg_gamma), st.lambda))]

\* lines 376-395: the step i = n, which updates s alone
ZoharFinal(st, rv, dv, n) ==
    LET neg_theta == InnerProduct(st.s, Rhat(rv, n), 0, Neg(dv))
        theta_by_lambda == Div(Neg(neg_theta), st.lambda)
    IN  Append([j \in 1..n |-> Add(st.s[j], Mul(theta_by_lambda, st.ehat[j]))],
               theta_by_lambda)

\* the read of d without the pre-increment
NextD_NoIncrement(pos) == pos

\* the position *++d_first reads
NextD(pos) == pos + 1

\* the elements of a and r that step i reads
StepReads(i) == {<<"a", j>> : j \in 0..i} \cup {<<"r", j>> : j \in 0..i}

ZoharBegin ==
    /\ zpc = "call"
    /\ IF ZoharInvalid(Len(a))
       THEN /\ zpc' = "thrown"
            /\ UNCHANGED <<s, ehat, g, lambda, zi, d_first, io_log, touched, lambda_log>>
       ELSE LET st == ZoharFirst(a, r, d[1])
            IN  /\ s' = st.s
                /\ ehat' = st.ehat
                /\ g' = st.g
                /\ lambda' = st.lambda
                /\ zi' = 1
                /\ d_first' = 0
                /\ io_log' = <<<<"read", "d", 0>>>>
                /\ touched' = StepReads(0)
                /\ lambda_log' = <<>>
                /\ zpc' = "loop"
    /\ UNCHANGED <<variance_vars, burg_vars, zohar_args, d, dest>>

ZoharRecurse ==
    /\ zpc = "loop"
    /\ zi < Len(a)
    /\ LET pos == NextD(d_first)
           st == ZoharStep([s |-> s, ehat |-> ehat, g |-> g, lambda |-> lambda],
                           a, r, d[pos + 1], zi)
       IN  /\ s' = st.s
           /\ ehat' = st.ehat
           /\ g' = st.g
           /\ lambda' = st.lambda
           /\ d_first' = pos
           /\ io_log' = Append(io_log, <<"read", "d", pos>>)
    /\ touched' = touched \cup StepReads(zi)
    /\ lambda_log' = Append(lambda_log, lambda)
    /\ zi' = zi + 1
    /\ UNCHANGED <<variance_vars, burg_vars, zohar_args, zpc, d, dest>>

ZoharLast ==
    /\ zpc = "loop"
    /\ zi >= Len(a)
    /\ LET pos == NextD(d_first)
       IN  /\ s' = ZoharFinal([s |-> s, ehat |-> ehat, g |-> g, lambda |-> lambda],
                              r, d[pos + 1], Len(a))
           /\ d_first' = pos
           /\ io_log' = Append(io_log, <<"read", "d", pos>>)
    /\ touched' = touched \cup {<<"r", j>> : j \in 0..(Len(a) - 1)}
    /\ lambda_log' = Append(lambda_log, lambda)
    /\ zpc' = "copy"
    /\ UNCHANGED <<variance_vars, burg_vars, zohar_args, d, dest, ehat, g, lambda, zi>>

\* copy(s.begin(), s.end(), s_first): s_first is d_first as the caller
\* passed it for the in-place overloads, a buffer of its own otherwise
ZoharOutput ==
    /\ zpc = "copy"
    /\ IF mode = "separate"
       THEN /\ dest' = s
            /\ d' = d
            /\ io_log' = io_log \o [j \in 1..Len(s) |-> <<"write", "dest", j - 1>>]
       ELSE /\ d' = s
            /\ dest' = dest
            /\ io_log' = io_log \o [j \in 1..Len(s) |-> <<"write", "d", j - 1>>]
    /\ zpc' = "returned"
    /\ UNCHANGED <<variance_vars, burg_vars, zohar_args, s, ehat, g, lambda, zi, d_first, touched, lambda_log>>

\* the solution the five-argument overload writes for a, r and d
RECURSIVE ZoharIterate(_, _, _, _, _)
ZoharIterate(st, av, rv, dv, i) ==
    IF i >= Len(av) THEN st
    ELSE ZoharIterate(ZoharStep(st, av, rv, dv[i + 1], i), av, rv, dv, i + 1)

ZoharSolve(av, rv, dv) ==
    ZoharFinal(ZoharIterate(ZoharFirst(av, rv, dv[1]), av, rv, dv, 1),
               rv, dv[Len(av) + 1], Len(av))

(***************************************************************************)
(* The calls of zohar_linear_solve the model makes: the five-argument      *)
(* overload ("separate"), the in-place one ("inplace", lines 426-434) and  *)
(* the symmetric in-place one ("symmetric", lines 459-466: a doubles as r).*)
(***************************************************************************)
ToepVec(n) == [1..n -> {FromInt(x) : x \in ToepVals}]

RhsVec(n) == [1..n -> {FromInt(x) : x \in RhsVals}]

ZoharInit ==
    /\ zpc = "call"
    /\ mode \in {"separate", "inplace", "symmetric"}
    /\ \E n \in 0..MaxZ :
          /\ a \in ToepVec(n)
          /\ r \in ToepVec(n)
          /\ d \in RhsVec(n + 1)
    /\ mode = "symmetric" => r = a
    /\ d_in = d
    /\ dest = <<>>
    /\ s = <<>>
    /\ ehat = <<>>
    /\ g = <<>>
    /\ lambda = Zero
    /\ zi = 0
    /\ d_first = 0
    /\ io_log = <<>>
    /\ touched = {}
    /\ lambda_log = <<>>

ZoharNext ==
    \/ ZoharBegin
    \/ ZoharRecurse
    \/ ZoharLast
    \/ ZoharOutput

(***************************************************************************)
(* The empirical variance functions and their iterator adapter, with the   *)
(* adapters' default Integer1 = Integer2 = std::size_t.                    *)
(***************************************************************************)
\* the product of two std::size_t values
RECURSIVE MulMod(_, _)
MulMod(x, y) ==
    IF y = 0 THEN 0 ELSE (2 * MulMod(x, y \div 2) + (y % 2) * x) % SizeMod

\* mean_subtracted: Result den = N; return 1 / den;
\* mean_retained: return 0;
EmpiricalVarianceZero(mh, n) ==
    IF mh = "mean_subtracted"
    THEN [den |-> <<FromInt(n)>>, value |-> Div(One, FromInt(n))]
    ELSE [den |-> <<>>, value |-> Zero]

\* Result num = N - i, den = N*(N + 2); return num / den;
YuleWalkerVariance(n, i) ==
    LET num == FromInt((n - i) % SizeMod)
        den == FromInt(MulMod(n, (n + 2) % SizeMod))
    IN  [den |-> <<den>>, value |-> Div(num, den)]

\* Result den = N + 1 - i; return 1 / den;
BurgVariance(n, i) ==
    LET den == FromInt((((n + 1) % SizeMod) - i) % SizeMod)
    IN  [den |-> <<den>>, value |-> Div(One, den)]

\* Result den = N + Result(3)/2 - Result(3)/2 * i; return 1 / den;
LSFBVariance(n, i) ==
    LET half3 == Div(FromInt(3), FromInt(2))
        den == Sub(Add(FromInt(n), half3), Mul(half3, FromInt(i)))
    IN  [den |-> <<den>>, value |-> Div(One, den)]

\* Result den = N + 2 - 2*i; return 1 / den;
LSFVariance(n, i) ==
    LET den == FromInt((((n + 2) % SizeMod) - MulMod(2, i)) % SizeMod)
    IN  [den |-> <<den>>, value |-> Div(One, den)]

\* assert(N >= 1); assert(i >= 0); assert(i <= N);
VarianceAsserts(n, i) == n >= 1 /\ i >= 0 /\ i <= n

\* EstimationMethod::empirical_variance<Result, Integer1, Integer2>(N, i)
EmpiricalVariance(meth, mh, n, i) ==
    IF i = 0 THEN EmpiricalVarianceZero(mh, n)
    ELSE IF meth = "YuleWalker" THEN YuleWalkerVariance(n, i)
    ELSE IF meth = "Burg" THEN BurgVariance(n, i)
    ELSE IF meth = "LSFB" THEN LSFBVariance(n, i)
    ELSE LSFVariance(n, i)

\* empirical_variance_iterator() : N(0), i(1)
PastEnd == [N |-> 0, i |-> 1]

\* empirical_variance_iterator(Integer1 N) : N(N), i(0)
Begin(n) == [N |-> n, i |-> 0]

\* The private constructor (Integer1 N, Integer2) : N(N), i(i) initialises
\* the member i from itself: the value is indeterminate.
Indeterminate == (0..(MaxVarN + 1)) \cup {SizeMax}

PrivateIterators(n, i) == {[N |-> n, i |-> x] : x \in Indeterminate}

\* bool operator==(const empirical_variance_iterator& other)
IterEqual(x, y) ==
    IF x.N = 0 THEN y.i = (y.N + 1) % SizeMod
    ELSE IF y.N = 0 THEN x.i = (x.N + 1) % SizeMod
    ELSE x.N = y.N /\ x.i = y.i

\* bool operator!=(const empirical_variance_iterator& other)
IterNotEqual(x, y) == ~IterEqual(x, y)

\* the traversal stops at the past-end position, and after MaxVarN + 1
\* increments on the large sample counts
CanAdvance == vpc = "live" /\ it.i <= it.N /\ it.i <= MaxVarN

\* empirical_variance_iterator& operator++(): ++i; return *this;
IterPreIncrement ==
    /\ CanAdvance
    /\ copy' = it
    /\ it' = [it EXCEPT !.i = (it.i + 1) % SizeMod]
    /\ returned' = it'
    /\ last_op' = "pre"
    /\ increments' = increments + 1
    /\ UNCHANGED <<burg_vars, zohar_vars, vpc, method, mean_handling, vN, last_eval, arg,
                   den_used, value>>

\* empirical_variance_iterator operator++(int):
\* return empirical_variance_iterator(N, i++);
IterPostIncrement ==
    /\ CanAdvance
    /\ copy' = it
    /\ returned' \in PrivateIterators(it.N, it.i)
    /\ it' = [it EXCEPT !.i = (it.i + 1) % SizeMod]
    /\ last_op' = "post"
    /\ increments' = increments + 1
    /\ UNCHANGED <<burg_vars, zohar_vars, vpc, method, mean_handling, vN, last_eval, arg,
                   den_used, value>>

\* what an evaluation at (n, i) leaves: the assertions abort the program
\* when they fail
Evaluate(n, i) ==
    /\ arg' = <<n, i>>
    /\ IF VarianceAsserts(n, i)
       THEN LET ev == EmpiricalVariance(method, mean_handling, n, i)
            IN  /\ den_used' = ev.den
                /\ value' = ev.value
                /\ vpc' = vpc
       ELSE /\ vpc' = "aborted"
            /\ UNCHANGED <<den_used, value>>

\* value_type operator*() const, on the iterator itself
IterDereference ==
    /\ vpc = "live"
    /\ Evaluate(it.N, it.i)
    /\ last_eval' = "deref"
    /\ UNCHANGED <<burg_vars, zohar_vars, method, mean_handling, vN, it, copy, returned,
                   last_op, increments>>

\* value_type operator*() const, on the iterator the last increment returned
IterDereferenceReturned ==
    /\ vpc = "live"
    /\ last_op \in {"pre", "post"}
    /\ Evaluate(returned.N, returned.i)
    /\ last_eval' = "deref_returned"
    /\ UNCHANGED <<burg_vars, zohar_vars, method, mean_handling, vN, it, copy, returned,
                   last_op, increments>>

\* the orders the function object is called with
CallOrders(n) == {x \in 0..(MaxVarN + 1) : x <= n + 1} \cup {n}

\* empirical_variance_function::operator()(Integer1 N, Integer2 i)
VarianceFunctionCall ==
    /\ vpc = "live"
    /\ \E i \in CallOrders(vN) : Evaluate(vN, i)
    /\ last_eval' = "call"
    /\ UNCHANGED <<burg_vars, zohar_vars, method, mean_handling, vN, it, copy, returned,
                   last_op, increments>>

\* the sample counts: the small ones, half the range of std::size_t and
\* the largest std::size_t
SampleCounts == (1..MaxVarN) \cup {SizeMod \div 2, SizeMax}

VarianceInit ==
    /\ vpc = "live"
    /\ method \in {"YuleWalker", "Burg", "LSFB", "LSF"}
    /\ mean_handling \in {"mean_subtracted", "mean_retained"}
    /\ vN \in SampleCounts
    /\ it = Begin(vN)
    /\ copy = it
    /\ returned = it
    /\ last_op = "ctor"
    /\ increments = 0
    /\ last_eval = "none"
    /\ arg = <<vN, 0>>
    /\ den_used = <<>>
    /\ value = Zero

VarianceNext ==
    \/ IterPreIncrement
    \/ IterPostIncrement
    \/ IterDereference
    \/ IterDereferenceReturned
    \/ VarianceFunctionCall

(***************************************************************************)
(* Specifications: one entry point is called and runs to its end.          *)
(***************************************************************************)
vars == <<burg_vars, zohar_vars, variance_vars>>

VarianceIdle ==
    /\ vpc = "idle"
    /\ method = "Burg"
    /\ mean_handling = "mean_retained"
    /\ vN = 1
    /\ it = PastEnd
    /\ copy = PastEnd
    /\ returned = PastEnd
    /\ last_op = "ctor"
    /\ increments = 0
    /\ last_eval = "none"
    /\ arg = <<1, 0>>
    /\ den_used = <<>>
    /\ value = Zero

BurgIdle ==
    /\ pc = "idle"
    /\ data = <<>>
    /\ p_in = 0
    /\ maxorder = 0
    /\ subtract_mean = FALSE
    /\ hierarchy = FALSE
    /\ N = 0
    /\ f = <<>>
    /\ b = <<>>
    /\ fold_i = 0
    /\ mean = Zero
    /\ sigma2e = Zero
    /\ Dk = Zero
    /\ Ak = <<>>
    /\ gain = Zero
    /\ autocor = <<>>
    /\ kp1 = 0
    /\ mu = Zero
    /\ params_out = <<>>
    /\ sigma2e_out = <<>>
    /\ gain_out = <<>>
    /\ autocor_out = <<>>
    /\ ret = 0
    /\ emit_log = <<>>
    /\ b_idx = {}

ZoharIdle ==
    /\ zpc = "idle"
    /\ mode = "separate"
    /\ a = <<>>
    /\ r = <<>>
    /\ d = <<>>
    /\ d_in = <<>>
    /\ dest = <<>>
    /\ s = <<>>
    /\ ehat = <<>>
    /\ g = <<>>
    /\ lambda = Zero
    /\ zi = 0
    /\ d_first = 0
    /\ io_log = <<>>
    /\ touched = {}
    /\ lambda_log = <<>>

BurgCall == BurgInit /\ ZoharIdle /\ VarianceIdle

ZoharCall == ZoharInit /\ BurgIdle /\ VarianceIdle

VarianceCall == VarianceInit /\ BurgIdle /\ ZoharIdle

BurgSpec == BurgCall /\ [][BurgNext]_vars

ZoharSpec == ZoharCall /\ [][ZoharNext]_vars

VarianceSpec == VarianceCall /\ [][VarianceNext]_vars

(***************************************************************************)
(* Properties of zohar_linear_solve.                                       *)
(***************************************************************************)
\* what the call left at its output: the d buffer for the in-place overloads
Solution == IF mode = "separate" THEN dest ELSE d

\* every lambda the recursion divided by was a nonzero number
LambdaNonzero == \A k \in 1..Len(lambda_log) : IsFinite(lambda_log[k]) /\ ~IsZero(lambda_log[k])

\* entry (row, col), counted from 0, of the Toeplitz matrix with unit diagonal,
\* first row (1, a) and first column (1, r)
ToeplitzEntry(av, rv, row, col) ==
    IF row = col THEN One
    ELSE IF col > row THEN av[col - row]
    ELSE rv[row - col]

RECURSIVE RowTimes(_, _, _, _, _)
RowTimes(av, rv, x, row, col) ==
    IF col >= Len(x) THEN Zero
    ELSE Add(Mul(ToeplitzEntry(av, rv, row, col), x[col + 1]),
             RowTimes(av, rv, x, row, col + 1))

\* C1: when the call has returned and lambda was nonzero at every step, the
\* n+1 values written satisfy L*s = d, row by row, in exact arithmetic.
C1_Resubstitution ==
    (zpc = "returned" /\ LambdaNonzero) =>
        /\ Len(Solution) = Len(a) + 1
        /\ \A row \in 0..Len(a) : RowTimes(a, r, Solution, row, 0) = d_in[row + 1]

C1_Witness ==
    /\ zpc = "returned"
    /\ LambdaNonzero
    /\ Len(a) >= 3
    /\ a # r
    /\ Solution # d_in
    /\ \E k \in 1..Len(Solution) : Solution[k][2] > 1

\* C9: an empty a range ends the call with std::invalid_argument before any
\* element of a, r or d was read and before anything was written; a call
\* with n >= 1 never raises.
C9_InvalidArgument ==
    /\ (Len(a) < 1 /\ zpc # "call") =>
          /\ zpc = "thrown"
          /\ io_log = <<>>
          /\ touched = {}
          /\ d = d_in
          /\ dest = <<>>
    /\ Len(a) >= 1 => zpc # "thrown"

C9_Witness == zpc = "thrown" /\ mode = "inplace" /\ Len(d_in) = 1

\* the reads of d[0..n] in ascending order followed by the writes of the
\* output in ascending order
InPlaceOrder(n) ==
    [k \in 1..(2 * (n + 1)) |->
        IF k <= n + 1 THEN <<"read", "d", k - 1>> ELSE <<"write", "d", k - n - 2>>]

IsPrefix(u, v) == Len(u) <= Len(v) /\ \A k \in 1..Len(u) : u[k] = v[k]

\* C10: in the in-place overloads each of d[0..n] is read once, in ascending
\* order, and all reads precede the first write, so the buffer ends up holding
\* the values the five-argument overload writes for the same a, r and d.
C10_InPlace ==
    /\ (mode # "separate" /\ Len(a) >= 1) =>
          /\ IsPrefix(io_log, InPlaceOrder(Len(a)))
          /\ zpc = "returned" =>
                /\ io_log = InPlaceOrder(Len(a))
                /\ d = ZoharSolve(a, r, d_in)
    /\ (mode = "separate" /\ zpc = "returned") =>
          /\ dest = ZoharSolve(a, r, d_in)
          /\ d = d_in

C10_Witness ==
    /\ zpc = "returned"
    /\ mode = "inplace"
    /\ Len(a) >= 3
    /\ AllFinite(d)
    /\ \A k \in 1..Len(d) : d[k] # d_in[k]

(***************************************************************************)
(* Properties of burg_method.                                              *)
(***************************************************************************)
BurgEnded == pc \in {"done", "crashed"}

\* C2 as stated: for N >= 1 and any requested order the call returns N and
\* has written p coefficients, one sigma2e and one gain (p(p+1)/2, p and p
\* in hierarchy mode), and p autocorrelations, p being the order written
\* back to maxorder; nothing when p = 0.
C2_EmissionCounts ==
    (BurgEnded /\ Len(data) >= 1) =>
        /\ pc = "done"
        /\ ret = Len(data)
        /\ Len(autocor_out) = maxorder
        /\ IF hierarchy
           THEN /\ 2 * Len(params_out) = maxorder * (maxorder + 1)
                /\ Len(sigma2e_out) = maxorder
                /\ Len(gain_out) = maxorder
           ELSE /\ Len(params_out) = maxorder
                /\ Len(sigma2e_out) = (IF maxorder >= 1 THEN 1 ELSE 0)
                /\ Len(gain_out) = (IF maxorder >= 1 THEN 1 ELSE 0)

Max(x, y) == IF x >= y THEN x ELSE y

\* the clamp of line 165 has been executed
Clamped == pc \in {"init", "reflect", "emit", "update", "autocor", "done"}
              \/ (pc = "crashed" /\ maxorder # p_in)

\* C3 as stated: the order written back is min(p_in + 1, N) - 1 over the
\* integers (0 when N = 0), within 0..max(0, N - 1) and at most p_in, for
\* every N and p_in.
C3_OrderBound ==
    Clamped =>
        /\ maxorder = Max(0, Min(p_in + 1, Len(data)) - 1)
        /\ 0 <= maxorder
        /\ maxorder <= Max(0, Len(data) - 1)
        /\ maxorder <= p_in

\* C4 as stated: with no samples the call takes the short circuit: it sets
\* maxorder to 0, returns 0, writes nothing, and never reaches the recursion
\* or an element of f or b after the mean step.
C4_EmptyInput ==
    (Len(data) = 0 /\ pc # "start" /\ pc # "fold" /\ pc # "idle") =>
        /\ pc \in {"clamp", "done"}
        /\ pc = "done" =>
              /\ maxorder = 0
              /\ ret = 0
              /\ params_out = <<>>
              /\ sigma2e_out = <<>>
              /\ gain_out = <<>>
              /\ autocor_out = <<>>

RECURSIVE SeqSum(_, _)
SeqSum(xs, k) == IF k > Len(xs) THEN 0 ELSE xs[k] + SeqSum(xs, k + 1)

\* C5: for N >= 1, after the first pass and the folds b[0] is the exact sum
\* of the input (each x[i] counted once: the inputs include every 0/1
\* vector), the mean is sum/N, and every element of b touched lies in [0, N).
C5_PairwiseMean ==
    /\ (pc = "clamp" /\ N >= 1) =>
          /\ b[1] = FromInt(SeqSum(data, 1))
          /\ mean = Rat(SeqSum(data, 1), N)
    /\ (pc \in {"fold", "clamp"} /\ N >= 1) => b_idx \subseteq 0..(N - 1)

C5_Witness ==
    /\ pc = "clamp"
    /\ N = 6
    /\ b_idx = 0..3
    /\ data[5] = 1
    /\ data[6] = 1
    /\ mean = Rat(1, 3)

\* the coefficient a_i of the AR(k) model, as emitted in hierarchy mode
Coef(k, i) == params_out[(k * (k - 1)) \div 2 + i]

\* the lag j autocorrelation as emitted; lag 0 is 1
Rho(j) == IF j = 0 THEN One ELSE autocor_out[j]

RECURSIVE YuleWalkerSum(_, _, _)
YuleWalkerSum(k, j, i) ==
    IF i > k THEN Zero
    ELSE Add(Mul(Coef(k, i), Rho(Abs(j - i))), YuleWalkerSum(k, j, i + 1))

\* rho_j + sum_{i=1..k} A_i rho_{|j-i|} = 0
YuleWalker(k, j) == Add(Rho(j), YuleWalkerSum(k, j, 1)) = Zero

\* a finished hierarchy-mode call whose outputs are all numbers
HierarchyDone ==
    /\ pc = "done"
    /\ hierarchy
    /\ maxorder >= 1
    /\ AllFinite(params_out)
    /\ AllFinite(autocor_out)

\* C6 as stated: the AR(k) coefficients satisfy the Yule-Walker relation with
\* the emitted autocorrelations at every lag j with k <= j <= p.
C6_Original ==
    HierarchyDone => \A k \in 1..maxorder : \A j \in k..maxorder : YuleWalker(k, j)

\* C6 as amended: whenever the emitted values are numbers, the AR(k)
\* coefficients satisfy the relation at every lag j with 1 <= j <= k (lag k
\* among them), for every order k in 1..p emitted in hierarchy mode.
C6_YuleWalker ==
    HierarchyDone => \A k \in 1..maxorder : \A j \in 1..k : YuleWalker(k, j)

C6_Witness ==
    /\ HierarchyDone
    /\ maxorder >= 2
    /\ \A k \in 1..Len(params_out) : ~IsZero(params_out[k])
    /\ ~IsZero(autocor_out[2])
    /\ ~YuleWalker(1, 2)

\* C7: for N >= 2, whenever D has been a nonzero number at every step so far,
\* the mu just computed has mu*mu <= 1 and sigma2e >= 0; and each sigma2e
\* emitted in hierarchy mode is >= 0 and <= the one emitted before it.
C7_MonotoneVariance ==
    /\ (pc = "emit" /\ IsFinite(Dk) /\ ~IsZero(Dk)) =>
          /\ Leq(Mul(mu, mu), One)
          /\ Leq(Zero, sigma2e)
    /\ hierarchy =>
          \A k \in 1..Len(sigma2e_out) :
              IsFinite(sigma2e_out[k]) =>
                  /\ Leq(Zero, sigma2e_out[k])
                  /\ k > 1 => Leq(sigma2e_out[k], sigma2e_out[k - 1])

C7_Witness ==
    /\ pc = "done"
    /\ hierarchy
    /\ Len(sigma2e_out) >= 2
    /\ IsFinite(sigma2e_out[2])
    /\ sigma2e_out[2] # sigma2e_out[1]
    /\ ~IsZero(sigma2e_out[2])

\* the coefficients of order k in ascending index, then its sigma2e and gain
RECURSIVE OrderBlock(_, _)
OrderBlock(k, i) ==
    IF i > k THEN <<<<"sigma2e", k, 0>>, <<"gain", k, 0>>>>
    ELSE <<<<"param", k, i>>>> \o OrderBlock(k, i + 1)

RECURSIVE OrderBlocks(_, _)
OrderBlocks(k, p) == IF k > p THEN <<>> ELSE OrderBlock(k, 1) \o OrderBlocks(k + 1, p)

RECURSIVE Lags(_, _)
Lags(j, p) == IF j > p THEN <<>> ELSE <<<<"autocor", j, 0>>>> \o Lags(j + 1, p)

\* what a call of effective order p writes, in order
EmissionOrder(h, p) ==
    (IF h THEN OrderBlocks(1, p) ELSE OrderBlock(p, 1)) \o Lags(1, p)

\* C8: in hierarchy mode the outputs of order k precede those of order k+1,
\* each order's coefficients in ascending index before its sigma2e and gain;
\* without hierarchy only order p is written; the autocorrelations follow
\* in ascending lag after everything else.
C8_EmissionOrder ==
    /\ pc \in {"reflect", "emit", "update", "autocor", "done"} /\ maxorder >= 1 =>
          /\ IsPrefix(emit_log, EmissionOrder(hierarchy, maxorder))
          /\ pc = "done" => emit_log = EmissionOrder(hierarchy, maxorder)
          /\ pc # "done" => \A k \in 1..Len(emit_log) : emit_log[k][1] # "autocor"
    /\ pc \notin {"reflect", "emit", "update", "autocor", "done"} \/ maxorder = 0 =>
          emit_log = <<>>

C8_Witness ==
    /\ pc = "done"
    /\ hierarchy
    /\ maxorder = 2
    /\ emit_log = <<<<"param", 1, 1>>, <<"sigma2e", 1, 0>>, <<"gain", 1, 0>>,
                    <<"param", 2, 1>>, <<"param", 2, 2>>, <<"sigma2e", 2, 0>>,
                    <<"gain", 2, 0>>, <<"autocor", 1, 0>>, <<"autocor", 2, 0>>>>

\* the sweep of order kp1 has set every Ak[n], n in 0..kp1, to
\* Ak[n] - mu*Ak[kp1 - n] of the values before it
SweptFromOld ==
    \A n \in 0..kp1 : Ak'[n + 1] = Sub(Ak[n + 1], Mul(mu', Ak[kp1 - n + 1]))

\* after the sweep of order kp1, Ak[kp1] = -mu and Ak[j] = 0 for j > kp1
SweptTail ==
    /\ Ak'[kp1 + 1] = Neg(mu')
    /\ \A j \in (kp1 + 1)..maxorder : Ak'[j + 1] = Zero

\* C14 as stated: every sweep computes each element from the values before
\* it, and leaves Ak[0] = 1, Ak[kp1] = -mu and zeros above kp1.
C14_Original ==
    [][BurgReflect => (SweptFromOld /\ SweptTail /\ Ak'[1] = One)]_vars

\* C14 as amended: every sweep computes each element from the values before
\* it and leaves Ak[kp1] = -mu and zeros above kp1; Ak[0] = 1 after every
\* sweep whose mu is a finite number.
C14_CoefficientSweep ==
    [][BurgReflect => (/\ SweptFromOld
                       /\ SweptTail
                       /\ IsFinite(mu') => Ak'[1] = One)]_vars

C14_Witness ==
    /\ pc = "emit"
    /\ kp1 = 2
    /\ maxorder >= 2
    /\ IsFinite(mu)
    /\ ~IsZero(mu)
    /\ ~IsZero(Ak[2])
    /\ Ak[1] = One
    /\ Ak[3] = Neg(mu)

\* sum over n in k..N-1 of f[n]^2 + b[n-k]^2
RECURSIVE DirectDk(_, _, _, _)
DirectDk(fv, bv, k, n) ==
    IF n >= Len(fv) THEN Zero
    ELSE Add(Add(Mul(fv[n + 1], fv[n + 1]), Mul(bv[n - k + 1], bv[n - k + 1])),
             DirectDk(fv, bv, k, n + 1))

\* the update after order kp1 has set the pairs (f[n + kp1], b[n]), n in
\* [0, N - kp1), from their values before it and left f[0..kp1) and
\* b[N - kp1..N) alone
ResidualsFromOld ==
    /\ \A n \in 0..(N - kp1 - 1) :
          /\ f'[n + kp1 + 1] = Sub(f[n + kp1 + 1], Mul(mu, b[n + 1]))
          /\ b'[n + 1] = Sub(b[n + 1], Mul(mu, f[n + kp1 + 1]))
    /\ \A n \in 0..(kp1 - 1) : f'[n + 1] = f[n + 1]
    /\ \A n \in (N - kp1)..(N - 1) : b'[n + 1] = b[n + 1]

\* C15: whenever mu is about to be computed for order kp1, the accumulator
\* Dk equals the denominator summed directly from the residual buffers, and
\* every update of the buffers between two orders is pairwise from the old
\* values, leaving f[0..kp1) and b[N - kp1..N) unchanged.
C15_DirectDenominator ==
    /\ [](pc = "reflect" => Dk = DirectDk(f, b, kp1, kp1))
    /\ [][(BurgUpdate /\ kp1 < maxorder) => ResidualsFromOld]_vars

C15_Witness ==
    /\ pc = "reflect"
    /\ kp1 = 2
    /\ IsFinite(Dk)
    /\ ~IsZero(Dk)
    /\ f # b
    /\ \E n \in 1..Len(f) : f[n] # FromInt(data[n])

(***************************************************************************)
(* Properties of the empirical variance family.                            *)
(***************************************************************************)
\* an evaluation has run to its end on arguments the assertions accept,
\* with an order of at least 1
Evaluated ==
    /\ vpc = "live"
    /\ last_eval # "none"
    /\ arg[1] >= 1
    /\ arg[2] >= 1
    /\ arg[2] <= arg[1]

\* C11 as stated: with std::size_t arguments, for every N >= 1 and every i
\* in 1..N the LSF denominator is the integer N + 2 - 2i and the result is
\* 1/(N + 2 - 2i).
C11_UnsignedLSF ==
    (Evaluated /\ method = "LSF") =>
        /\ den_used = <<FromInt(arg[1] + 2 - 2 * arg[2])>>
        /\ arg[1] + 2 - 2 * arg[2] # 0
        /\ value = Rat(1, arg[1] + 2 - 2 * arg[2])

\* the iterators at hand: the one traversing, the copy taken before the
\* last increment, the one the last increment returned, a past-end one and
\* a fresh one for every sample count
Iterators == {it, copy, returned, PastEnd} \cup {Begin(n) : n \in SampleCounts}

\* C12 as stated: for every N >= 1 the iterator equals a past-end iterator
\* exactly after N + 1 increments and dereferences to v_m(N) after m <= N
\* of them; equality is symmetric, past-end iterators are equal, and two
\* others are equal exactly when their N and their i agree.
C12_Traversal ==
    vpc = "live" =>
        /\ IterEqual(it, PastEnd) <=> (increments = vN + 1)
        /\ IterEqual(PastEnd, it) <=> (increments = vN + 1)
        /\ (last_eval = "deref" /\ arg[2] = increments) =>
              /\ increments <= vN
              /\ arg = <<vN, increments>>
              /\ value = EmpiricalVariance(method, mean_handling, vN, increments).value
        /\ IterEqual(PastEnd, PastEnd)
        /\ \A x, y \in Iterators :
              /\ IterEqual(x, y) <=> IterEqual(y, x)
              /\ (x.N # 0 /\ y.N # 0) => (IterEqual(x, y) <=> (x.N = y.N /\ x.i = y.i))

\* C13 as stated: it++ advances the iterator by one and returns an iterator
\* with the same N at the position before the increment, equal to a copy
\* taken before it and dereferencing to the same v_i(N).
C13_PostIncrement ==
    (vpc = "live" /\ last_op = "post") =>
        /\ it.i = copy.i + 1
        /\ returned.N = copy.N
        /\ returned.i = copy.i
        /\ IterEqual(returned, copy)
        /\ last_eval = "deref_returned" => arg = <<copy.N, copy.i>>

\* C16 as stated: for each of the four methods and every i in 1..N the
\* assertions accept, every denominator used is a positive number and the
\* variance returned is finite and nonnegative.
C16_PositiveDenominators ==
    Evaluated =>
        /\ \A k \in 1..Len(den_used) : IsFinite(den_used[k]) /\ den_used[k][1] > 0
        /\ IsFinite(value)
        /\ value[1] >= 0

====
